---------------------------- MODULE Spec2Model ----------------------------
(***************************************************************************)
(* Model of the device-compatibility helpers of trezor-connect:            *)
(*   parseCapabilities, getUnavailableCapabilities, parseRevision          *)
(*   (deviceFeaturesUtils) and gatherWitnessPaths (cardanoWitnesses).      *)
(*                                                                         *)
(* The four functions are pure.  Each has a specification of its own whose *)
(* Init draws the arguments from bounded sets and whose actions run the    *)
(* function:  SpecParse, SpecResolve, SpecDispatch, SpecGroups,            *)
(* SpecRevision, SpecCollect.                                              *)
(*                                                                         *)
(* JavaScript values.  An optional value (undefined / null or a value) is  *)
(* the tuple None or Some(v).  A string that is a dotted version is the    *)
(* sequence of its numeric segments ("2.0.0" is <<2, 0, 0>>, "0" is <<0>>);*)
(* a revision string is the sequence of its character codes.               *)
(***************************************************************************)
EXTENDS Integers, Sequences, FiniteSets, TLC

VARIABLES
    pc,             \* position of the running call
    features,       \* argument: Features (optional for parseCapabilities)
    ret,            \* value the running call returned
    coins,          \* argument of getUnavailableCapabilities: CoinInfo[]
    support,        \* argument of getUnavailableCapabilities: config.supportedFirmware
    list,           \* local `list` of getUnavailableCapabilities (the report)
    supported,      \* local `supported`
    unavailable,    \* local `unavailable`
    inputsWithPath, \* argument of gatherWitnessPaths
    certificates,   \* argument certificatesWithPoolOwnersAndRelays
    withdrawals,    \* argument of gatherWitnessPaths
    witnessPaths    \* local Map `witnessPaths`, as its entries in insertion order

vars == <<pc, features, ret, coins, support, list, supported, unavailable,
          inputsWithPath, certificates, withdrawals, witnessPaths>>

None == << >>
Some(v) == <<v>>
Optional(S) == {None} \cup {Some(v) : v \in S}

\* arr[i] of a JavaScript array (0-based): None when i is out of range
At0(arr, i) == IF i \in 0 .. (Len(arr) - 1) THEN Some(arr[i + 1]) ELSE None

\* arr.includes(x)
Includes(arr, x) == \E i \in 1 .. Len(arr) : arr[i] = x

(***************************************************************************)
(* parseCapabilities                                                       *)
(***************************************************************************)
CAPABILITIES ==
    << "Capability_Bitcoin", "Capability_Bitcoin_like", "Capability_Binance",
       "Capability_Cardano", "Capability_Crypto", "Capability_EOS",
       "Capability_Ethereum", "Capability_Lisk", "Capability_Monero",
       "Capability_NEM", "Capability_Ripple", "Capability_Stellar",
       "Capability_Tezos", "Capability_U2F", "Capability_Shamir",
       "Capability_ShamirGroups", "Capability_PassphraseEntry" >>

DEFAULT_CAPABILITIES_T1 == <<1, 2, 5, 7, 10, 12, 14>>
DEFAULT_CAPABILITIES_TT == <<1, 2, 3, 4, 5, 6, 7, 9, 10, 11, 12, 13, 14>>

\* mutant of filter: the code is used as a 0-based index
filter_index0(c) ==
    LET e == At0(CAPABILITIES, c) IN IF e # None THEN <<e[1]>> ELSE << >>

\* const filter = c => (CAPABILITIES[c - 1] ? [CAPABILITIES[c - 1]] : [])
filter(c) ==
    LET e == At0(CAPABILITIES, c - 1) IN IF e # None THEN <<e[1]>> ELSE << >>

\* arr.flatMap(filter)
RECURSIVE flatMapFilter(_)
flatMapFilter(arr) ==
    IF arr = << >> THEN << >>
    ELSE filter(Head(arr)) \o flatMapFilter(Tail(arr))

parseCapabilities(f) ==
    IF f = None \/ f[1].firmware_present = Some(FALSE) THEN << >>
    ELSE IF f[1].capabilities = None \/ Len(f[1].capabilities[1]) = 0
         THEN IF f[1].major_version = 1
              THEN flatMapFilter(DEFAULT_CAPABILITIES_T1)
              ELSE flatMapFilter(DEFAULT_CAPABILITIES_TT)
         ELSE flatMapFilter(f[1].capabilities[1])

\* ---- bounds of the parseCapabilities arguments
MaxCodes == 2          \* longest reported capability list
CodeSlack == 1         \* how far the reported codes leave the table's range
MaxMajor == 2          \* major versions 1 .. MaxMajor

SeqsUpTo(S, n) == UNION {[1 .. k -> S] : k \in 0 .. n}

Codes == (0 - CodeSlack) .. (Len(CAPABILITIES) + CodeSlack)

Features(fp, major, minor, patch, caps, rev) ==
    [firmware_present |-> fp, major_version |-> major, minor_version |-> minor,
     patch_version |-> patch, capabilities |-> caps, revision |-> rev]

ParseFeatures ==
    Optional({Features(fp, major, 0, 0, caps, None) :
                 fp \in Optional(BOOLEAN), major \in 1 .. MaxMajor,
                 caps \in Optional(SeqsUpTo(Codes, MaxCodes))})

Idle ==
    /\ coins = << >> /\ support = << >> /\ list = << >>
    /\ supported = << >> /\ unavailable = << >>
    /\ inputsWithPath = << >> /\ certificates = << >> /\ withdrawals = << >>
    /\ witnessPaths = << >>

InitParse ==
    /\ pc = "parse"
    /\ features \in ParseFeatures
    /\ ret = << >>
    /\ Idle

ParseCapabilities ==
    /\ pc = "parse"
    /\ ret' = parseCapabilities(features)
    /\ pc' = "parsed"
    /\ UNCHANGED <<features, coins, support, list, supported, unavailable,
                   inputsWithPath, certificates, withdrawals, witnessPaths>>

NextParse == ParseCapabilities

SpecParse == InitParse /\ [][NextParse]_vars


\* C7: parseCapabilities returns nothing for an absent device or one whose
\* firmware_present is false; for an absent or empty capability list the names
\* at the fixed default indices of the model (major version 1, or any other);
\* otherwise the names of the reported codes that lie in 1..17, in reported
\* order, codes outside the table dropped.
C7_ParseReference ==
    pc = "parsed" =>
        ret = IF features = None THEN << >>
              ELSE IF features[1].firmware_present = Some(FALSE) THEN << >>
              ELSE IF features[1].capabilities \in {None, Some(<< >>)}
              THEN IF features[1].major_version = 1
                   THEN << "Capability_Bitcoin", "Capability_Bitcoin_like",
                           "Capability_Crypto", "Capability_Ethereum",
                           "Capability_NEM", "Capability_Stellar",
                           "Capability_U2F" >>
                   ELSE << "Capability_Bitcoin", "Capability_Bitcoin_like",
                           "Capability_Binance", "Capability_Cardano",
                           "Capability_Crypto", "Capability_EOS",
                           "Capability_Ethereum", "Capability_Monero",
                           "Capability_NEM", "Capability_Ripple",
                           "Capability_Stellar", "Capability_Tezos",
                           "Capability_U2F" >>
              ELSE LET kept == SelectSeq(features[1].capabilities[1],
                                         LAMBDA c : c >= 1 /\ c <= 17)
                   IN  [i \in 1 .. Len(kept) |-> CAPABILITIES[kept[i]]]

\* a device that reports an unknown code before a known one
C7_Witness ==
    /\ pc = "parsed"
    /\ features # None
    /\ features[1].firmware_present = Some(TRUE)
    /\ features[1].capabilities = Some(<<18, 1>>)
    /\ ret = <<"Capability_Bitcoin">>

(***************************************************************************)
(* parseRevision                                                           *)
(*                                                                         *)
(* A string is the sequence of its UTF-16 character codes.                 *)
(***************************************************************************)
IsDigit(c) == c \in 48 .. 57            \* 0-9
IsLowerAF(c) == c \in 97 .. 102         \* a-f
IsUpperAF(c) == c \in 65 .. 70          \* A-F
\* [a-f] and [a-f0-9] under the i flag
IsHexLetter(c) == IsLowerAF(c) \/ IsUpperAF(c)
IsHexChar(c) == IsDigit(c) \/ IsHexLetter(c)
\* what . does not match
IsLineTerminator(c) == c \in {10, 13, 8232, 8233}

\* mutant of TestStandard: the regular expression without its i flag
TestStandard_caseSensitive(s) ==
    /\ \E i \in 1 .. Len(s) :
          /\ IsLowerAF(s[i])
          /\ \A j \in 1 .. (i - 1) : ~IsLineTerminator(s[j])
    /\ \A i \in 1 .. Len(s) : IsDigit(s[i]) \/ IsLowerAF(s[i])

\* /^(?=.*[a-f])([a-f0-9]*)$/gi.test(s)
TestStandard(s) ==
    /\ \E i \in 1 .. Len(s) :
          /\ IsHexLetter(s[i])
          /\ \A j \in 1 .. (i - 1) : ~IsLineTerminator(s[j])
    /\ \A i \in 1 .. Len(s) : IsHexChar(s[i])

\* /^([a-f0-9])*$/gi.test(s)
TestHexOnly(s) == \A i \in 1 .. Len(s) : IsHexChar(s[i])

HexVal(c) == IF IsDigit(c) THEN c - 48 ELSE IF IsLowerAF(c) THEN c - 87 ELSE c - 55

\* Buffer.from(s, 'hex'): the bytes of the leading pairs of hex digits; decoding
\* stops at the first pair that is not two hex digits, and a trailing single
\* character is dropped
RECURSIVE BufferFromHex(_)
BufferFromHex(s) ==
    IF Len(s) < 2 THEN << >>
    ELSE IF ~(IsHexChar(s[1]) /\ IsHexChar(s[2])) THEN << >>
    ELSE <<16 * HexVal(s[1]) + HexVal(s[2])>> \o BufferFromHex(SubSeq(s, 3, Len(s)))

\* buf.toString('utf-8'): an ASCII byte is its character; every other byte
\* becomes (part of) a character outside ASCII, written U+FFFD here
Utf8ToString(buf) ==
    [i \in 1 .. Len(buf) |-> IF buf[i] < 128 THEN buf[i] ELSE 65533]

parseRevision(f) ==
    LET revision == f.revision IN
    IF revision = None \/ revision[1] = << >> THEN None
    ELSE IF TestStandard(revision[1]) THEN revision
    ELSE LET revisionUtf8 == Utf8ToString(BufferFromHex(revision[1]))
         IN  IF TestHexOnly(revisionUtf8) THEN Some(revisionUtf8) ELSE revision

\* ---- bounds of the parseRevision argument
MaxRevLen == 4         \* longest revision string

\* characters 1 3 4 6 F a d z
RevChars == {49, 51, 52, 54, 70, 97, 100, 122}

InitRevision ==
    /\ pc = "normalize"
    /\ features \in {Some(Features(Some(TRUE), 2, 0, 0, None, rev)) :
                        rev \in Optional(SeqsUpTo(RevChars, MaxRevLen))}
    /\ ret = << >>
    /\ Idle

ParseRevision ==
    /\ pc = "normalize"
    /\ ret' = parseRevision(features[1])
    /\ pc' = "normalized"
    /\ UNCHANGED <<features, coins, support, list, supported, unavailable,
                   inputsWithPath, certificates, withdrawals, witnessPaths>>

NextRevision == ParseRevision

SpecRevision == InitRevision /\ [][NextRevision]_vars

\* the standard notation of the documentation: hex digits only, one letter at least
IsStandardNotation(s) ==
    /\ \A i \in 1 .. Len(s) : s[i] \in (48 .. 57) \cup (65 .. 70) \cup (97 .. 102)
    /\ \E i \in 1 .. Len(s) : s[i] \in (65 .. 70) \cup (97 .. 102)

\* the character of a nibble, in lower case
NibbleChar(n) == IF n < 10 THEN 48 + n ELSE 87 + n

\* the hex encoding of the bytes of an ASCII string
RECURSIVE HexEncode(_)
HexEncode(s) ==
    IF s = << >> THEN << >>
    ELSE <<NibbleChar(Head(s) \div 16), NibbleChar(Head(s) % 16)>> \o HexEncode(Tail(s))

\* C8: normalizing the hex encoding of a standard-notation revision r returns r,
\* and normalizing a standard-notation revision returns it unchanged.
C8_RoundTrip ==
    pc = "normalized" =>
        /\ \A r \in SeqsUpTo(RevChars, MaxRevLen \div 2) :
              (IsStandardNotation(r) /\ features[1].revision = Some(HexEncode(r)))
                  => ret = Some(r)
        /\ (features[1].revision # None /\ IsStandardNotation(features[1].revision[1]))
              => ret = features[1].revision

\* "6446", the hex encoding of "dF", is normalized to "dF"
C8_Witness ==
    /\ pc = "normalized"
    /\ features[1].revision = Some(<<54, 52, 52, 54>>)
    /\ features[1].revision = Some(HexEncode(<<100, 70>>))
    /\ ret = Some(<<100, 70>>)

\* hex-raw-bytes notation: an even number of hex digits whose bytes are hex-digit text
IsHexRawBytes(s) ==
    /\ Len(s) % 2 = 0
    /\ \A i \in 1 .. Len(s) : s[i] \in (48 .. 57) \cup (65 .. 70) \cup (97 .. 102)
    /\ \A k \in 1 .. (Len(s) \div 2) :
          LET hi == s[2 * k - 1]
              lo == s[2 * k]
              val(c) == IF c <= 57 THEN c - 48 ELSE IF c <= 70 THEN c - 55 ELSE c - 87
              b == 16 * val(hi) + val(lo)
          IN  b \in (48 .. 57) \cup (65 .. 70) \cup (97 .. 102)

\* C9: a present, non-empty revision that is neither standard notation nor
\* hex-raw-bytes notation is returned unchanged.
C9_ConservativeFallback ==
    (/\ pc = "normalized"
     /\ features[1].revision # None
     /\ features[1].revision[1] # << >>
     /\ ~IsStandardNotation(features[1].revision[1])
     /\ ~IsHexRawBytes(features[1].revision[1]))
        => ret = features[1].revision


(***************************************************************************)
(* gatherWitnessPaths                                                      *)
(*                                                                         *)
(* A Path is a sequence of numbers.  The Map witnessPaths is the sequence  *)
(* of its entries [key, value] in insertion order.                         *)
(***************************************************************************)
RECURSIVE DecimalDigits(_)
DecimalDigits(n) ==
    IF n < 10 THEN <<48 + n>> ELSE DecimalDigits(n \div 10) \o <<48 + (n % 10)>>

RECURSIVE JoinNumbers(_)
JoinNumbers(path) ==
    IF path = << >> THEN << >>
    ELSE IF Len(path) = 1 THEN DecimalDigits(path[1])
    ELSE DecimalDigits(path[1]) \o <<44>> \o JoinNumbers(Tail(path))

\* JSON.stringify(path) of an array of numbers: "[0,1,2]", as character codes
JSONStringify(path) == <<91>> \o JoinNumbers(path) \o <<93>>

\* Map.prototype.set: a new key is appended, a known key keeps its place
MapSet(m, k, v) ==
    IF \E i \in 1 .. Len(m) : m[i].key = k
    THEN [i \in 1 .. Len(m) |-> IF m[i].key = k THEN [key |-> k, value |-> v] ELSE m[i]]
    ELSE Append(m, [key |-> k, value |-> v])

\* mutant of insert: the path is stored without looking for its key
insert_noDedup(m, path) == Append(m, [key |-> JSONStringify(path), value |-> path])

\* function _insert(path)
insert(m, path) == MapSet(m, JSONStringify(path), path)

\* inputsWithPath.forEach(({ path }) => { if (path) _insert(path); })
RECURSIVE insertInputs(_, _)
insertInputs(m, inputs) ==
    IF inputs = << >> THEN m
    ELSE insertInputs(IF Head(inputs).path # None
                      THEN insert(m, Head(inputs).path[1]) ELSE m,
                      Tail(inputs))

\* poolOwners.forEach(poolOwner => { if (poolOwner.staking_key_path) _insert(...) })
RECURSIVE insertPoolOwners(_, _)
insertPoolOwners(m, poolOwners) ==
    IF poolOwners = << >> THEN m
    ELSE insertPoolOwners(IF Head(poolOwners).staking_key_path # None
                          THEN insert(m, Head(poolOwners).staking_key_path[1]) ELSE m,
                          Tail(poolOwners))

\* the body of certificatesWithPoolOwnersAndRelays.forEach
insertCertificate(m, c) ==
    LET m1 == IF /\ c.certificate.path # None
                 /\ (\/ c.certificate.type = "STAKE_DELEGATION"
                     \/ c.certificate.type = "STAKE_DEREGISTRATION")
              THEN insert(m, c.certificate.path[1])
              ELSE m
    IN  insertPoolOwners(m1, c.poolOwners)

RECURSIVE insertCertificates(_, _)
insertCertificates(m, certs) ==
    IF certs = << >> THEN m
    ELSE insertCertificates(insertCertificate(m, Head(certs)), Tail(certs))

\* withdrawals.forEach(({ path }) => _insert(path))
RECURSIVE insertWithdrawals(_, _)
insertWithdrawals(m, ws) ==
    IF ws = << >> THEN m
    ELSE insertWithdrawals(insert(m, Head(ws).path), Tail(ws))

\* Array.from(witnessPaths.values())
MapValues(m) == [i \in 1 .. Len(m) |-> m[i].value]

\* ---- bounds of the gatherWitnessPaths arguments
MaxInputs == 2
MaxCerts == 2
MaxWithdrawals == 1

InputPaths == {<<0, 1, 2>>, <<10, 1>>}
WithdrawalPaths == {<<0, 1, 2>>, <<2>>}

Cert(type, path, owners) ==
    [certificate |-> [type |-> type, path |-> path],
     poolOwners |-> [i \in 1 .. Len(owners) |-> [staking_key_path |-> owners[i]]]]

CertPool ==
    { Cert("STAKE_DELEGATION", Some(<<0, 1, 2>>), << >>),
      Cert("STAKE_DELEGATION", None, << >>),
      Cert("STAKE_DEREGISTRATION", Some(<<10, 1>>), << >>),
      Cert("STAKE_DEREGISTRATION", Some(<<7>>), <<Some(<<2>>)>>),
      Cert("STAKE_REGISTRATION", Some(<<2>>), << >>),
      Cert("STAKE_POOL_REGISTRATION", None, <<Some(<<2>>)>>),
      Cert("STAKE_POOL_REGISTRATION", None, <<None, Some(<<0, 1, 2>>), Some(<<7>>)>>) }

InitCollect ==
    /\ pc = "collect"
    /\ inputsWithPath \in SeqsUpTo({[path |-> p] : p \in Optional(InputPaths)}, MaxInputs)
    /\ certificates \in SeqsUpTo(CertPool, MaxCerts)
    /\ withdrawals \in SeqsUpTo({[path |-> p] : p \in WithdrawalPaths}, MaxWithdrawals)
    /\ witnessPaths = << >>
    /\ ret = << >>
    /\ features = None
    /\ coins = << >> /\ support = << >> /\ list = << >>
    /\ supported = << >> /\ unavailable = << >>

GatherWitnessPaths ==
    /\ pc = "collect"
    /\ witnessPaths' =
          insertWithdrawals(
              insertCertificates(insertInputs(<< >>, inputsWithPath), certificates),
              withdrawals)
    /\ ret' = MapValues(witnessPaths')
    /\ pc' = "collected"
    /\ UNCHANGED <<features, coins, support, list, supported, unavailable,
                   inputsWithPath, certificates, withdrawals>>

NextCollect == GatherWitnessPaths

SpecCollect == InitCollect /\ [][NextCollect]_vars

\* the elements of s at their first occurrence
FirstOccurrences(s) ==
    LET keep == {i \in 1 .. Len(s) : \A j \in 1 .. (i - 1) : s[j] # s[i]}
        RECURSIVE pick(_)
        pick(i) == IF i > Len(s) THEN << >>
                   ELSE (IF i \in keep THEN <<s[i]>> ELSE << >>) \o pick(i + 1)
    IN  pick(1)

RECURSIVE Flatten(_)
Flatten(ss) == IF ss = << >> THEN << >> ELSE Head(ss) \o Flatten(Tail(ss))

Present(o) == IF o = None THEN << >> ELSE <<o[1]>>

IsQualifying(c) == c.certificate.type \in {"STAKE_DELEGATION", "STAKE_DEREGISTRATION"}

InputPathsOf(inputs) == Flatten([i \in 1 .. Len(inputs) |-> Present(inputs[i].path)])

DeclaredPathOf(c) == IF IsQualifying(c) THEN Present(c.certificate.path) ELSE << >>

OwnerPathsOf(c) ==
    Flatten([k \in 1 .. Len(c.poolOwners) |-> Present(c.poolOwners[k].staking_key_path)])

WithdrawalPathsOf(ws) == [i \in 1 .. Len(ws) |-> ws[i].path]

\* C10 as stated: the output is the first-occurrence deduplication of all input
\* paths, then the declared paths of all qualifying certificates, then the
\* pool-owner paths of all certificates, then all withdrawal paths.
C10_AllDeclaredBeforeAllOwners ==
    pc = "collected" =>
        ret = FirstOccurrences(
                  InputPathsOf(inputsWithPath)
                  \o Flatten([i \in 1 .. Len(certificates) |-> DeclaredPathOf(certificates[i])])
                  \o Flatten([i \in 1 .. Len(certificates) |-> OwnerPathsOf(certificates[i])])
                  \o WithdrawalPathsOf(withdrawals))

\* C10 amended: the output is the first-occurrence deduplication of all input
\* paths, then certificate by certificate the declared path of a qualifying
\* certificate followed by that certificate's pool-owner paths, then all
\* withdrawal paths; no path occurs twice.
C10_PerCertificateOrder ==
    pc = "collected" =>
        /\ ret = FirstOccurrences(
                  InputPathsOf(inputsWithPath)
                  \o Flatten([i \in 1 .. Len(certificates) |->
                                 DeclaredPathOf(certificates[i]) \o OwnerPathsOf(certificates[i])])
                  \o WithdrawalPathsOf(withdrawals))
        /\ \A i, j \in 1 .. Len(ret) : ret[i] = ret[j] => i = j

\* a pool registration ahead of a delegation: the owner's path comes out before
\* the delegation's declared path, and a repeated path comes out once
C10_Witness ==
    /\ pc = "collected"
    /\ inputsWithPath = <<[path |-> Some(<<10, 1>>)]>>
    /\ certificates = << Cert("STAKE_POOL_REGISTRATION", None, <<Some(<<2>>)>>),
                         Cert("STAKE_DELEGATION", Some(<<0, 1, 2>>), << >>) >>
    /\ withdrawals = <<[path |-> <<0, 1, 2>>]>>
    /\ ret = << <<10, 1>>, <<2>>, <<0, 1, 2>> >>


(***************************************************************************)
(* getUnavailableCapabilities                                              *)
(*                                                                         *)
(* A CoinInfo is [shortcut, name, type, support]; support is optional and  *)
(* maps a model key <<"trezor", n>> (the string `trezor${n}`) to a value   *)
(* [type, v]: a version string ("string"), false ("boolean") or nothing.   *)
(* The object `list` is a function from its keys to their values.  The     *)
(* arrays `supported` and `unavailable` hold the coins by their index in   *)
(* `coins`, since includes() compares the objects by reference.            *)
(***************************************************************************)
Str(v) == [type |-> "string", v |-> v]
False == [type |-> "boolean", v |-> << >>]
Undefined == [type |-> "undefined", v |-> << >>]

\* obj[k] of an object given as a function
Get(obj, k) == IF k \in DOMAIN obj THEN obj[k] ELSE Undefined

EmptyObject == [k \in {} |-> "no-support"]

\* obj[k] = v
Put(obj, k, v) == [x \in (DOMAIN obj) \cup {k} |-> IF x = k THEN v ELSE obj[x]]

\* String.prototype.toLowerCase on the identifiers of the model
toLowerCase(s) ==
    CASE s = "BTC" -> "btc"
      [] s = "TEST" -> "test"
      [] s = "LTC" -> "ltc"
      [] s = "ETH" -> "eth"
      [] s = "XEM" -> "xem"
      [] s = "BNB" -> "bnb"
      [] s = "XRP" -> "xrp"
      [] s = "tXRP" -> "txrp"
      [] s = "ADA" -> "ada"
      [] s = "xrp" -> "xrp"

\* `Capability_${name}`
CapabilityNamed(name) ==
    CASE name = "Cardano" -> "Capability_Cardano"
      [] name = "Binance Chain" -> "Capability_Binance Chain"
      [] name = "Ripple" -> "Capability_Ripple"
      [] name = "Ripple Testnet" -> "Capability_Ripple Testnet"
      [] name = "Bitcoin" -> "Capability_Bitcoin"
      [] name = "Testnet" -> "Capability_Testnet"
      [] name = "Litecoin" -> "Capability_Litecoin"
      [] name = "Ethereum" -> "Capability_Ethereum"
      [] name = "XRP Token" -> "Capability_XRP Token"
      [] name = "NEM" -> "Capability_NEM"

\* versionCompare(a, b) of versionUtils: a version string against a version
\* array, segment by segment from the left, a missing segment counting as 0
versionCompare(a, b) ==
    LET n == IF Len(a) > Len(b) THEN Len(a) ELSE Len(b)
        seg(s, i) == IF i <= Len(s) THEN s[i] ELSE 0
        diff == {i \in 1 .. n : seg(a, i) # seg(b, i)}
    IN  IF diff = {} THEN 0
        ELSE LET i == CHOOSE x \in diff : \A y \in diff : x <= y
             IN  IF seg(a, i) > seg(b, i) THEN 1 ELSE 0 - 1

\* const fw = [features.major_version, features.minor_version, features.patch_version]
fw(f) == <<f.major_version, f.minor_version, f.patch_version>>

\* const key = `trezor${features.major_version}`
key(f) == <<"trezor", f.major_version>>

\* mutant of isSupported: any entry under the key counts, a string or not
isSupported_anyEntry(info, k) ==
    info.support # None /\ Get(info.support[1], k).type # "undefined"

\* the test of stage 1, negated: info.support && typeof info.support[key] === 'string'
isSupported(info, k) ==
    info.support # None /\ Get(info.support[1], k).type = "string"

\* mutant of missesCapability: every bitcoin-type coin asks for Capability_Bitcoin
missesCapability_bitcoinOnly(info, capabilities) ==
    IF info.type = "bitcoin" THEN ~Includes(capabilities, "Capability_Bitcoin")
    ELSE IF info.type = "ethereum" THEN ~Includes(capabilities, "Capability_Ethereum")
    ELSE IF info.type = "nem" THEN ~Includes(capabilities, "Capability_NEM")
    ELSE IF info.shortcut = "BNB" THEN ~Includes(capabilities, "Capability_Binance")
    ELSE IF info.shortcut = "XRP" \/ info.shortcut = "tXRP"
         THEN ~Includes(capabilities, "Capability_Ripple")
    ELSE ~Includes(capabilities, CapabilityNamed(info.name))

\* the callback of stage 2's filter
missesCapability(info, capabilities) ==
    IF info.type = "bitcoin"
    THEN IF info.name = "Bitcoin" \/ info.name = "Testnet"
         THEN ~Includes(capabilities, "Capability_Bitcoin")
         ELSE ~Includes(capabilities, "Capability_Bitcoin_like")
    ELSE IF info.type = "ethereum" THEN ~Includes(capabilities, "Capability_Ethereum")
    ELSE IF info.type = "nem" THEN ~Includes(capabilities, "Capability_NEM")
    ELSE IF info.shortcut = "BNB" THEN ~Includes(capabilities, "Capability_Binance")
    ELSE IF info.shortcut = "XRP" \/ info.shortcut = "tXRP"
         THEN ~Includes(capabilities, "Capability_Ripple")
    ELSE ~Includes(capabilities, CapabilityNamed(info.name))

\* list[k] = value for the coins (indices) of idxs, in order
RECURSIVE markCoins(_, _, _, _)
markCoins(l, cs, idxs, value) ==
    IF idxs = << >> THEN l
    ELSE markCoins(Put(l, toLowerCase(cs[Head(idxs)].shortcut), value), cs, Tail(idxs), value)

AllIdx(cs) == [i \in 1 .. Len(cs) |-> i]

\* stage 1: const supported = coins.filter(...), marking the others "no-support"
stage1Supported(cs, f) == SelectSeq(AllIdx(cs), LAMBDA i : isSupported(cs[i], key(f)))

stage1List(l, cs, f) ==
    markCoins(l, cs, SelectSeq(AllIdx(cs), LAMBDA i : ~isSupported(cs[i], key(f))),
              "no-support")

\* stage 2: const unavailable = supported.filter(...)
stage2Unavailable(cs, sup, capabilities) ==
    SelectSeq(sup, LAMBDA i : missesCapability(cs[i], capabilities))

\* mutant of stage3Outdated: the coins without their capability are checked too
stage3Outdated_unfiltered(cs, sup, unav, f) ==
    SelectSeq(sup, LAMBDA i : versionCompare(Get(cs[i].support[1], key(f)).v, fw(f)) > 0)

\* mutant of stage3Outdated: a minimum equal to the device version counts as newer
stage3Outdated_orEqual(cs, sup, unav, f) ==
    SelectSeq(SelectSeq(sup, LAMBDA i : ~Includes(unav, i)),
              LAMBDA i : versionCompare(Get(cs[i].support[1], key(f)).v, fw(f)) >= 0)

\* mutant of stage3Outdated: the comparison is turned around
stage3Outdated_reversed(cs, sup, unav, f) ==
    SelectSeq(SelectSeq(sup, LAMBDA i : ~Includes(unav, i)),
              LAMBDA i : versionCompare(Get(cs[i].support[1], key(f)).v, fw(f)) < 0)

\* stage 3: the coins of supported.filter(info => !unavailable.includes(info))
\* whose versionCompare(info.support[key], fw) > 0
stage3Outdated(cs, sup, unav, f) ==
    SelectSeq(SelectSeq(sup, LAMBDA i : ~Includes(unav, i)),
              LAMBDA i : versionCompare(Get(cs[i].support[1], key(f)).v, fw(f)) > 0)

\* s.capabilities.forEach(m => { list[m] = value; })
RECURSIVE markNames(_, _, _)
markNames(l, names, value) ==
    IF names = << >> THEN l
    ELSE markNames(Put(l, Head(names), value), Tail(names), value)

\* s.min ? s.min[fw[0] - 1] : null  (and the same for s.max)
boundAt(arr, v) == IF arr # None THEN At0(arr[1], v[1] - 1) ELSE None

\* mutant of applyEntry: the max rule is tested before the min rule
applyEntry_maxFirst(l, s, v) ==
    IF s.capabilities = None THEN l
    ELSE LET min == boundAt(s.min, v)
             max == boundAt(s.max, v)
             l1 == IF max # None /\ versionCompare(max[1], v) < 0
                   THEN markNames(l, s.capabilities[1], "trezor-connect-outdated")
                   ELSE l
         IN  IF min # None /\ (min[1] = <<0>> \/ versionCompare(min[1], v) > 0)
             THEN markNames(l1, s.capabilities[1],
                            IF min[1] = <<0>> THEN "no-support" ELSE "update-required")
             ELSE l1

\* stage 4: the body of support.forEach (a bound that is there is a non-empty
\* string, which is truthy)
applyEntry(l, s, v) ==
    IF s.capabilities = None THEN l
    ELSE LET min == boundAt(s.min, v)
             max == boundAt(s.max, v)
             l1 == IF min # None /\ (min[1] = <<0>> \/ versionCompare(min[1], v) > 0)
                   THEN markNames(l, s.capabilities[1],
                                  IF min[1] = <<0>> THEN "no-support" ELSE "update-required")
                   ELSE l
         IN  IF max # None /\ versionCompare(max[1], v) < 0
             THEN markNames(l1, s.capabilities[1], "trezor-connect-outdated")
             ELSE l1

RECURSIVE applyEntries(_, _, _)
applyEntries(l, entries, v) ==
    IF entries = << >> THEN l
    ELSE applyEntries(applyEntry(l, Head(entries), v), Tail(entries), v)

\* ---- the actions of getUnavailableCapabilities
CollectIdle ==
    /\ inputsWithPath = << >> /\ certificates = << >> /\ withdrawals = << >>
    /\ witnessPaths = << >>

\* if (!capabilities) return list;
ReturnEmpty ==
    /\ pc = "resolve"
    /\ features[1].capabilities = None
    /\ pc' = "resolved"
    /\ ret' = list
    /\ UNCHANGED <<features, coins, support, list, supported, unavailable,
                   inputsWithPath, certificates, withdrawals, witnessPaths>>

Stage1 ==
    /\ pc = "resolve"
    /\ features[1].capabilities # None
    /\ supported' = stage1Supported(coins, features[1])
    /\ list' = stage1List(list, coins, features[1])
    /\ pc' = "stage2"
    /\ UNCHANGED <<features, ret, coins, support, unavailable,
                   inputsWithPath, certificates, withdrawals, witnessPaths>>

Stage2 ==
    /\ pc = "stage2"
    /\ unavailable' = stage2Unavailable(coins, supported, features[1].capabilities[1])
    /\ list' = markCoins(list, coins, unavailable', "no-capability")
    /\ pc' = "stage3"
    /\ UNCHANGED <<features, ret, coins, support, supported,
                   inputsWithPath, certificates, withdrawals, witnessPaths>>

Stage3 ==
    /\ pc = "stage3"
    /\ LET outdated == stage3Outdated(coins, supported, unavailable, features[1])
       IN  /\ list' = markCoins(list, coins, outdated, "update-required")
           /\ unavailable' = unavailable \o outdated
    /\ pc' = "stage4"
    /\ UNCHANGED <<features, ret, coins, support, supported,
                   inputsWithPath, certificates, withdrawals, witnessPaths>>

Stage4 ==
    /\ pc = "stage4"
    /\ list' = applyEntries(list, support, fw(features[1]))
    /\ ret' = list'
    /\ pc' = "resolved"
    /\ UNCHANGED <<features, coins, support, supported, unavailable,
                   inputsWithPath, certificates, withdrawals, witnessPaths>>

NextResolve == ReturnEmpty \/ Stage1 \/ Stage2 \/ Stage3 \/ Stage4

\* ---- bounds of the getUnavailableCapabilities arguments
MaxCoins == 2          \* longest asset catalog
MaxSupport == 2        \* longest support-range table

\* firmware versions 1.9.0, 2.0.0, 2.1.0
FwPool == {<<1, 9, 0>>, <<2, 0, 0>>, <<2, 1, 0>>}

T1 == <<"trezor", 1>>
T2 == <<"trezor", 2>>

\* support objects: none; {trezor2: "2.0.0"}; {trezor1: "2.0.0", trezor2: false};
\* {trezor1: "1.9.0", trezor2: "2.1.0"}
SupT2 == Some([k \in {T2} |-> Str(<<2, 0, 0>>)])
SupT1 == Some([k \in {T1, T2} |-> IF k = T1 THEN Str(<<2, 0, 0>>) ELSE False])
SupBoth == Some([k \in {T1, T2} |-> IF k = T1 THEN Str(<<1, 9, 0>>) ELSE Str(<<2, 1, 0>>)])

Coin(shortcut, name, type, sup) ==
    [shortcut |-> shortcut, name |-> name, type |-> type, support |-> sup]

\* catalog assets that differ in their support objects and share identifiers
CoinPool ==
    {Coin("BTC", "Bitcoin", "bitcoin", sup) : sup \in {None, SupT2, SupT1, SupBoth}}
    \cup {Coin("XRP", "Ripple", "misc", sup) : sup \in {None, SupT2, SupBoth}}
    \cup {Coin("xrp", "XRP Token", "ethereum", sup) : sup \in {SupT2, SupBoth}}

\* catalog assets of every kind, name and identifier that stage 2 tells apart
DispatchPool ==
    { Coin("BTC", "Bitcoin", "bitcoin", SupBoth),
      Coin("BTC", "Bitcoin", "bitcoin", None),
      Coin("TEST", "Testnet", "bitcoin", SupBoth),
      Coin("LTC", "Litecoin", "bitcoin", SupBoth),
      Coin("ETH", "Ethereum", "ethereum", SupBoth),
      Coin("XEM", "NEM", "nem", SupBoth),
      Coin("BNB", "Binance Chain", "misc", SupBoth),
      Coin("XRP", "Ripple", "misc", SupBoth),
      Coin("tXRP", "Ripple Testnet", "misc", SupBoth),
      Coin("ADA", "Cardano", "misc", SupBoth),
      Coin("xrp", "XRP Token", "ethereum", SupBoth) }

\* features.capabilities: absent, empty, one capability of caps, or all of them
CapabilityLists(caps) ==
    {None, Some(<< >>), Some(SelectSeq(CAPABILITIES, LAMBDA c : c \in caps))}
    \cup {Some(<<c>>) : c \in caps}

Entry(caps, min, max) == [capabilities |-> caps, min |-> min, max |-> max]

\* { capabilities: ['btc', 'replaceTransaction'], min: ['0', '2.1.0'] }
CollidingEntry == Entry(Some(<<"btc", "replaceTransaction">>),
                        Some(<< <<0>>, <<2, 1, 0>> >>), None)

ResolveFeatures(fws, caps) ==
    {Some(Features(Some(TRUE), v[1], v[2], v[3], c, None)) : v \in fws, c \in caps}

ResolveStart ==
    /\ pc = "resolve"
    /\ list = EmptyObject
    /\ supported = << >>
    /\ unavailable = << >>
    /\ ret = EmptyObject
    /\ CollectIdle

InitResolve ==
    /\ features \in ResolveFeatures(FwPool,
           CapabilityLists({"Capability_Bitcoin", "Capability_Ethereum", "Capability_Ripple"}))
    /\ coins \in SeqsUpTo(CoinPool, MaxCoins)
    /\ support \in {<< >>, <<CollidingEntry>>}
    /\ ResolveStart

SpecResolve == InitResolve /\ [][NextResolve]_vars

InitDispatch ==
    /\ features \in ResolveFeatures(FwPool,
           CapabilityLists({"Capability_Bitcoin", "Capability_Bitcoin_like",
                            "Capability_Ethereum", "Capability_NEM", "Capability_Binance",
                            "Capability_Ripple", "Capability_Cardano"}))
    /\ coins \in SeqsUpTo(DispatchPool, MaxCoins)
    /\ support \in {<< >>, <<CollidingEntry>>}
    /\ ResolveStart

SpecDispatch == InitDispatch /\ [][NextResolve]_vars

\* support-range entries: with or without capabilities, min and max; the last
\* one names a key that is also the identifier of an asset
EntryPool ==
    {Entry(caps, min, max) :
        caps \in {Some(<<"replaceTransaction">>), Some(<<"eip1559", "replaceTransaction">>)},
        min \in {None, Some(<< <<0>>, <<2, 1, 0>> >>), Some(<< <<2, 0, 0>> >>)},
        max \in {None, Some(<< <<1, 8, 0>>, <<2, 0, 0>> >>)}}
    \cup { Entry(None, Some(<< <<0>>, <<2, 1, 0>> >>), None),
           Entry(Some(<<"eip1559">>), None, Some(<< <<1, 8, 0>> >>)),
           Entry(Some(<<"eth">>), Some(<< <<0>>, <<2, 1, 0>> >>), None) }

InitGroups ==
    /\ features \in ResolveFeatures(FwPool, {None, Some(<< >>), Some(<<"Capability_Ethereum">>)})
    /\ coins \in {<< >>, <<Coin("ETH", "Ethereum", "ethereum", SupBoth)>>}
    /\ support \in SeqsUpTo(EntryPool, MaxSupport)
    /\ ResolveStart

SpecGroups == InitGroups /\ [][NextResolve]_vars


(***************************************************************************)
(* The vocabulary of the claims about getUnavailableCapabilities           *)
(***************************************************************************)
Device == fw(features[1])

\* the model key "trezor" + majorVersion
ModelKey == <<"trezor", features[1].major_version>>

DeviceCapabilities ==
    IF features[1].capabilities = None THEN {}
    ELSE {features[1].capabilities[1][i] : i \in 1 .. Len(features[1].capabilities[1])}

IdOf(c) == toLowerCase(c.shortcut)

\* the asset has a version-string entry under the model key
HasVersionEntry(c) ==
    /\ c.support # None
    /\ ModelKey \in DOMAIN c.support[1]
    /\ c.support[1][ModelKey].type = "string"

MinimumOf(c) == c.support[1][ModelKey].v

SegmentAt(v, i) == IF i <= Len(v) THEN v[i] ELSE 0

\* version string v is newer (older) than the version triple d
IsNewer(v, d) ==
    \E i \in 1 .. 3 : SegmentAt(v, i) > d[i] /\ \A j \in 1 .. (i - 1) : SegmentAt(v, j) = d[j]

IsOlder(v, d) ==
    \E i \in 1 .. 3 : SegmentAt(v, i) < d[i] /\ \A j \in 1 .. (i - 1) : SegmentAt(v, j) = d[j]

\* the capability an asset requires, by kind, name and identifier
RequiredCapability(c) ==
    CASE c.type = "bitcoin" /\ c.name \in {"Bitcoin", "Testnet"} -> "Capability_Bitcoin"
      [] c.type = "bitcoin" /\ c.name \notin {"Bitcoin", "Testnet"} -> "Capability_Bitcoin_like"
      [] c.type = "ethereum" -> "Capability_Ethereum"
      [] c.type = "nem" -> "Capability_NEM"
      [] c.type = "misc" /\ c.shortcut = "BNB" -> "Capability_Binance"
      [] c.type = "misc" /\ c.shortcut \in {"XRP", "tXRP"} -> "Capability_Ripple"
      [] c.type = "misc" /\ c.shortcut \notin {"BNB", "XRP", "tXRP"} -> CapabilityNamed(c.name)

HasCapability(c) == RequiredCapability(c) \in DeviceCapabilities

\* another catalog asset has the same lower-cased identifier
Shared(i) == \E j \in 1 .. Len(coins) : j # i /\ IdOf(coins[j]) = IdOf(coins[i])

\* the bound of a support-range entry for the device's major version
BoundOf(arr) ==
    IF arr # None /\ features[1].major_version <= Len(arr[1])
    THEN Some(arr[1][features[1].major_version]) ELSE None

MinFires(e) ==
    LET m == BoundOf(e.min) IN m # None /\ (m[1] = <<0>> \/ IsNewer(m[1], Device))

MaxFires(e) ==
    LET m == BoundOf(e.max) IN m # None /\ IsOlder(m[1], Device)

NamesOf(e) ==
    IF e.capabilities = None THEN {}
    ELSE {e.capabilities[1][i] : i \in 1 .. Len(e.capabilities[1])}

\* the entries of the support-range table that write the key k in stage 4
Writers(k) ==
    {j \in 1 .. Len(support) :
        k \in NamesOf(support[j]) /\ (MinFires(support[j]) \/ MaxFires(support[j]))}

WrittenByStage4(k) == Writers(k) # {}

\* the report obj gives the key k the reason v
Reports(obj, k, v) == k \in DOMAIN obj /\ obj[k] = v

Greatest(S) == CHOOSE x \in S : \A y \in S : y <= x

\* C1 as stated: whatever the capability set, an asset without a version-string
\* entry under the model key is "no-support" in the returned report.
C1_NoSupportAlways ==
    pc = "resolved" =>
        \A i \in 1 .. Len(coins) :
            ~HasVersionEntry(coins[i]) =>
                /\ IdOf(coins[i]) \in DOMAIN ret
                /\ Reports(ret, IdOf(coins[i]), "no-support")

\* C1 amended: with a present (possibly empty) capability set, an asset without
\* a version-string entry under the model key is "no-support" in the returned
\* report, provided no asset with the same lower-cased identifier has such an
\* entry and stage 4 does not write that identifier; with an absent capability
\* set the report is empty.
C1_NoSupport ==
    pc = "resolved" =>
        IF features[1].capabilities = None THEN ret = EmptyObject
        ELSE \A i \in 1 .. Len(coins) :
                (/\ ~HasVersionEntry(coins[i])
                 /\ ~WrittenByStage4(IdOf(coins[i]))
                 /\ \A j \in 1 .. Len(coins) :
                       IdOf(coins[j]) = IdOf(coins[i]) => ~HasVersionEntry(coins[j]))
                    => /\ IdOf(coins[i]) \in DOMAIN ret
                       /\ Reports(ret, IdOf(coins[i]), "no-support")

\* an asset whose entry under the model key is false, on a device with an empty
\* capability list
C1_Witness ==
    /\ pc = "resolved"
    /\ features[1].capabilities = Some(<< >>)
    /\ Device = <<2, 0, 0>>
    /\ coins = <<Coin("BTC", "Bitcoin", "bitcoin", SupT1)>>
    /\ ret = [k \in {"btc"} |-> "no-support"]

\* the stage whose reason an asset gets: 1 no-support, 2 no-capability,
\* 3 update-required, 0 none
StageOf(c) ==
    IF ~HasVersionEntry(c) THEN 1
    ELSE IF ~HasCapability(c) THEN 2
    ELSE IF IsNewer(MinimumOf(c), Device) THEN 3
    ELSE 0

ReasonOfStage(n) ==
    CASE n = 1 -> "no-support" [] n = 2 -> "no-capability" [] n = 3 -> "update-required"

\* C2 as stated: an asset with a support entry, without its capability and with
\* a minimum newer than the device ends in the report as "update-required".
C2_UpdateRequiredWins ==
    (pc = "resolved" /\ features[1].capabilities # None) =>
        \A i \in 1 .. Len(coins) :
            (/\ HasVersionEntry(coins[i])
             /\ ~HasCapability(coins[i])
             /\ IsNewer(MinimumOf(coins[i]), Device))
                => /\ IdOf(coins[i]) \in DOMAIN ret
                   /\ Reports(ret, IdOf(coins[i]), "update-required")

\* C2 amended: after stages 1-3 every identifier has at most one reason, that of
\* the latest stage that marked an asset with this identifier; an asset without
\* its capability is not version-checked by stage 3, so one that shares its
\* identifier with no other asset stays "no-capability" even when its minimum is
\* newer than the device.
C2_LaterStageWins ==
    pc = "stage4" =>
        /\ DOMAIN list = {IdOf(coins[i]) : i \in {j \in 1 .. Len(coins) : StageOf(coins[j]) > 0}}
        /\ \A k \in DOMAIN list :
              list[k] = ReasonOfStage(Greatest({StageOf(coins[i]) :
                            i \in {j \in 1 .. Len(coins) : IdOf(coins[j]) = k}}))
        /\ \A i \in 1 .. Len(coins) :
              (/\ HasVersionEntry(coins[i])
               /\ ~HasCapability(coins[i])
               /\ IsNewer(MinimumOf(coins[i]), Device)
               /\ ~Shared(i))
                  => Reports(list, IdOf(coins[i]), "no-capability")

\* after stage 3: XRP lacks its capability and has a newer minimum, and stays
\* "no-capability"; BTC was "no-support" for one asset and is "update-required"
\* for a later one
C2_Witness ==
    /\ pc = "stage4"
    /\ Device = <<2, 0, 0>>
    /\ features[1].capabilities = Some(<<"Capability_Bitcoin">>)
    /\ coins = << Coin("XRP", "Ripple", "misc", SupBoth),
                  Coin("BTC", "Bitcoin", "bitcoin", SupBoth) >>
    /\ list = [k \in {"xrp", "btc"} |-> IF k = "xrp" THEN "no-capability" ELSE "update-required"]

\* C3: an asset with a version-string entry under the model key, with its
\* capability present and a minimum not newer than the device has no entry in
\* the returned report, provided stage 4 does not write its identifier and no
\* other asset shares it.
C3_Available ==
    pc = "resolved" =>
        \A i \in 1 .. Len(coins) :
            (/\ HasVersionEntry(coins[i])
             /\ HasCapability(coins[i])
             /\ ~IsNewer(MinimumOf(coins[i]), Device)
             /\ ~WrittenByStage4(IdOf(coins[i]))
             /\ ~Shared(i))
                => IdOf(coins[i]) \notin DOMAIN ret

\* btc with {trezor2: "2.0.0"} on a device 2.0.0 that has Capability_Bitcoin
C3_Witness ==
    /\ pc = "resolved"
    /\ Device = <<2, 0, 0>>
    /\ features[1].capabilities = Some(<<"Capability_Bitcoin">>)
    /\ coins = <<Coin("BTC", "Bitcoin", "bitcoin", SupT2)>>
    /\ "btc" \notin DOMAIN ret

\* C4: stage 2 marks exactly the assets that passed stage 1 and whose required
\* capability (by kind, name and identifier) is absent: each is in `unavailable`
\* and "no-capability" under its lower-cased identifier; an asset that failed
\* stage 1 is not examined, and its identifier changes to "no-capability" only
\* for another asset that has it.  In the returned report such an asset is
\* "no-capability" when no other asset shares its identifier and stage 4 does
\* not write it.
C4_Stage2Dispatch ==
    /\ pc = "stage3" =>
          /\ \A i \in 1 .. Len(coins) :
                Includes(unavailable, i)
                    <=> (HasVersionEntry(coins[i]) /\ ~HasCapability(coins[i]))
          /\ \A i \in 1 .. Len(coins) :
                (HasVersionEntry(coins[i]) /\ ~HasCapability(coins[i]))
                    => Reports(list, IdOf(coins[i]), "no-capability")
          /\ \A i \in 1 .. Len(coins) :
                (/\ ~HasVersionEntry(coins[i])
                 /\ \A j \in 1 .. Len(coins) :
                       IdOf(coins[j]) = IdOf(coins[i])
                           => ~(HasVersionEntry(coins[j]) /\ ~HasCapability(coins[j])))
                    => Reports(list, IdOf(coins[i]), "no-support")
    /\ (pc = "resolved" /\ features[1].capabilities # None) =>
          \A i \in 1 .. Len(coins) :
              (/\ HasVersionEntry(coins[i])
               /\ ~HasCapability(coins[i])
               /\ ~Shared(i)
               /\ ~WrittenByStage4(IdOf(coins[i])))
                  => Reports(ret, IdOf(coins[i]), "no-capability")

\* after stage 2 on a device with Capability_Bitcoin only: Litecoin needs
\* Capability_Bitcoin_like, and the unsupported BTC stays "no-support"
C4_Witness ==
    /\ pc = "stage3"
    /\ features[1].capabilities = Some(<<"Capability_Bitcoin">>)
    /\ coins = << Coin("BTC", "Bitcoin", "bitcoin", None),
                  Coin("LTC", "Litecoin", "bitcoin", SupBoth) >>
    /\ unavailable = <<2>>
    /\ list = [k \in {"btc", "ltc"} |-> IF k = "btc" THEN "no-support" ELSE "no-capability"]

\* C5 as stated: an asset with its capability present and a minimum newer than
\* the device is "update-required" in the report; btc with {trezor2: "2.0.0"} on
\* a device 1.9.0 that has Capability_Bitcoin yields {btc: "update-required"}.
C5_ScenarioUpdateRequired ==
    pc = "resolved" =>
        /\ \A i \in 1 .. Len(coins) :
              (/\ HasVersionEntry(coins[i])
               /\ HasCapability(coins[i])
               /\ IsNewer(MinimumOf(coins[i]), Device))
                  => /\ IdOf(coins[i]) \in DOMAIN ret
                     /\ Reports(ret, IdOf(coins[i]), "update-required")
        /\ (/\ coins = <<Coin("BTC", "Bitcoin", "bitcoin", SupT2)>>
            /\ Device = <<1, 9, 0>>
            /\ "Capability_Bitcoin" \in DeviceCapabilities
            /\ support = << >>)
              => ret = [k \in {"btc"} |-> "update-required"]

\* C5 amended: stage 3 marks an asset that has a version-string entry under the
\* device's model key, has its capability and has a minimum newer than the
\* device as "update-required", and the report says so unless stage 4 writes the
\* identifier; btc with {trezor1: "2.0.0"} on a device 1.9.0 that has
\* Capability_Bitcoin yields {btc: "update-required"}, and btc with
\* {trezor2: "2.0.0"} yields {btc: "no-support"} there.
C5_UpdateRequired ==
    /\ pc = "stage4" =>
          \A i \in 1 .. Len(coins) :
              (/\ HasVersionEntry(coins[i])
               /\ HasCapability(coins[i])
               /\ IsNewer(MinimumOf(coins[i]), Device))
                  => /\ Reports(list, IdOf(coins[i]), "update-required")
                     /\ Includes(unavailable, i)
    /\ pc = "resolved" =>
          /\ \A i \in 1 .. Len(coins) :
                (/\ HasVersionEntry(coins[i])
                 /\ HasCapability(coins[i])
                 /\ IsNewer(MinimumOf(coins[i]), Device)
                 /\ ~WrittenByStage4(IdOf(coins[i])))
                    => Reports(ret, IdOf(coins[i]), "update-required")
          /\ (/\ Device = <<1, 9, 0>>
              /\ "Capability_Bitcoin" \in DeviceCapabilities
              /\ support = << >>)
                => /\ coins = <<Coin("BTC", "Bitcoin", "bitcoin", SupT1)>>
                        => ret = [k \in {"btc"} |-> "update-required"]
                   /\ coins = <<Coin("BTC", "Bitcoin", "bitcoin", SupT2)>>
                        => ret = [k \in {"btc"} |-> "no-support"]

\* btc with {trezor1: "2.0.0"} on a device 1.9.0 that has Capability_Bitcoin
C5_Witness ==
    /\ pc = "resolved"
    /\ Device = <<1, 9, 0>>
    /\ features[1].capabilities = Some(<<"Capability_Bitcoin">>)
    /\ coins = <<Coin("BTC", "Bitcoin", "bitcoin", SupT1)>>
    /\ support = << >>
    /\ ret = [k \in {"btc"} |-> "update-required"]

AllNames == UNION {NamesOf(support[j]) : j \in 1 .. Len(support)}

\* C6: after stage 4 a capability name has the value of the last entry that
\* wrote it: "trezor-connect-outdated" if that entry's max is older than the
\* device, else "no-support" if its min is the sentinel "0", else
\* "update-required" (its min is newer than the device), whatever stages 1-3
\* left under that key; a name no entry wrote has no value unless it is the
\* identifier of an asset, and a key no entry wrote is as stages 1-3 left it.
C6_Stage4 ==
    (pc = "resolved" /\ features[1].capabilities # None) =>
        /\ \A m \in AllNames :
              IF Writers(m) = {}
              THEN (\A i \in 1 .. Len(coins) : IdOf(coins[i]) # m) => m \notin DOMAIN ret
              ELSE /\ m \in DOMAIN ret
                   /\ LET e == support[Greatest(Writers(m))]
                      IN  ret[m] = IF MaxFires(e) THEN "trezor-connect-outdated"
                                   ELSE IF BoundOf(e.min)[1] = <<0>> THEN "no-support"
                                   ELSE "update-required"
        /\ \A k \in DOMAIN ret :
              k \in AllNames \/ \E i \in 1 .. Len(coins) : IdOf(coins[i]) = k
        /\ \A i \in 1 .. Len(coins) :
              ~WrittenByStage4(IdOf(coins[i]))
                  => (IdOf(coins[i]) \in DOMAIN ret
                         <=> \E j \in 1 .. Len(coins) :
                                IdOf(coins[j]) = IdOf(coins[i]) /\ StageOf(coins[j]) > 0)

\* device 1.9.0: the first entry has min "0" and max "1.8.0", so both rules fire
\* and the max rule wins for both names; the second entry then writes
\* replaceTransaction again by its min rule
C6_Witness ==
    /\ pc = "resolved"
    /\ Device = <<1, 9, 0>>
    /\ features[1].capabilities # None
    /\ support = << Entry(Some(<<"eip1559", "replaceTransaction">>),
                          Some(<< <<0>>, <<2, 1, 0>> >>),
                          Some(<< <<1, 8, 0>>, <<2, 0, 0>> >>)),
                    Entry(Some(<<"replaceTransaction">>), Some(<< <<2, 0, 0>> >>), None) >>
    /\ coins = << >>
    /\ ret = [k \in {"eip1559", "replaceTransaction"} |->
                 IF k = "eip1559" THEN "trezor-connect-outdated" ELSE "update-required"]

=============================================================================
